---- MODULE Spec2Model ----
(***************************************************************************)
(* plone.restapi types/utils.py: translation of the fieldsets of a z3c     *)
(* form into a JSON schema.  The form (default fields and groups, as       *)
(* plone.autoform leaves them) and the schema interfaces with their widget *)
(* tagged values are the inputs; every function of utils.py is an operator *)
(* translated from its code, and an action records one call of it.         *)
(***************************************************************************)
EXTENDS Integers, Sequences, FiniteSets, TLC

VARIABLES
    lookupFails,    \* fti.lookupSchema() raises AttributeError
    form_fields,    \* form.fields.values() after updateFieldsFromSchemata
    form_groups,    \* form.groups, each with __name__, label and fields
    schemas,        \* the argument of get_widget_params
    tagged,         \* schema -> its own WIDGETS_KEY tagged value (field -> widget)
    call            \* the call of the request: operation, arguments, result

vars == <<lookupFails, form_fields, form_groups, schemas, tagged, call>>

(***************************************************************************)
(* Bounds                                                                  *)
(***************************************************************************)
MaxFields == 2      \* form fields of a type, default group and groups together
MaxGroups == 1      \* z3c.form groups of a form
MaxSchemas == 2     \* length of the sequence handed to get_widget_params

(***************************************************************************)
(* Python values                                                           *)
(***************************************************************************)
None == "<None>"

Return(v) == [status |-> "ok", value |-> v]
Raise(e) == [status |-> "raised", error |-> e]

\* getattr(obj, attr, None)
Getattr(obj, attr) == IF attr \in DOMAIN obj THEN obj[attr] ELSE None

\* str(x) of the values the model passes to it
Str(x) == IF x = None THEN "None" ELSE x

\* collections.OrderedDict: keys in first-insertion order
EmptyDict == [keys |-> <<>>, vals |-> <<>>]

DictSet(d, k, v) ==
    [keys |-> IF k \in DOMAIN d.vals THEN d.keys ELSE Append(d.keys, k),
     vals |-> (k :> v) @@ d.vals]

HasKey(d, k) == k \in DOMAIN d.vals

(***************************************************************************)
(* Input domains                                                           *)
(***************************************************************************)
FieldNames == {"a", "b"}
GroupIds == {"a", "settings"}
Modes == {"hidden"}
Prefixes == {"", "p"}

\* a z3c.form field: name is field.field.getName(), fid stands for the
\* form-unique field.__name__, named/unnamed say whether an
\* IJsonSchemaProvider adapter is registered under field.__name__ / unnamed
FieldAttrs(reqs, modes, nameds, unnameds) ==
    [name : FieldNames, required : reqs, mode : modes,
     named : nameds, unnamed : unnameds]

SeqsUpTo(S, n) == UNION {[1..k -> S] : k \in 0..n}

WithIds(fs) == [i \in 1..Len(fs) |-> [fid |-> i] @@ fs[i]]

SubSeqOrEmpty(s, lo, hi) == IF lo > hi THEN <<>> ELSE SubSeq(s, lo, hi)

\* the ways of cutting a flat field list into default fields and groups
Cuts(n, g) == {c \in [1..g -> 0..n] : \A i \in 1..g : \A j \in 1..g : i <= j => c[i] <= c[j]}

GroupsOf(flat, ids, c) ==
    [i \in 1..Len(ids) |->
        [name |-> ids[i], label |-> ids[i],
         fields |-> SubSeqOrEmpty(flat, c[i] + 1,
                                  IF i = Len(ids) THEN Len(flat) ELSE c[i + 1])]]

DefaultOf(flat, ids, c) ==
    IF Len(ids) = 0 THEN flat ELSE SubSeqOrEmpty(flat, 1, c[1])

(***************************************************************************)
(* utils.py                                                                *)
(***************************************************************************)
\* zope.i18n translate(msgid, default=...): no catalog translates the msgid,
\* so the default is returned when one is given and the msgid otherwise
translate(msgid, default) == IF default # None THEN default ELSE msgid

get_form_fieldsets(fields, groups) ==
    (IF fields # <<>>
        THEN <<[id |-> "default",
                title |-> translate("label_schema_default", "Default"),
                fields |-> fields]>>
        ELSE <<>>)
    \o [i \in 1..Len(groups) |->
            [id |-> groups[i].name,
             title |-> translate(groups[i].label, None),
             fields |-> groups[i].fields]]

get_fieldsets == get_form_fieldsets(form_fields, form_groups)

RECURSIVE iter_fields(_)
iter_fields(fieldsets) ==
    IF fieldsets = <<>> THEN <<>>
    ELSE Head(fieldsets).fields \o iter_fields(Tail(fieldsets))

get_fieldset_infos(fieldsets) ==
    [i \in 1..Len(fieldsets) |->
        [id |-> fieldsets[i].id,
         title |-> fieldsets[i].title,
         fields |-> [j \in 1..Len(fieldsets[i].fields) |-> fieldsets[i].fields[j].name]]]

\* the lookup with the fallback tried first
lookup_adapter_unnamed_first(field) ==
    IF field.unnamed THEN Return("unnamed")
    ELSE IF field.named THEN Return("named")
    ELSE Raise("ComponentLookupError")

\* queryMultiAdapter(..., name=field.__name__) or getMultiAdapter(...)
lookup_adapter(field) ==
    IF field.named THEN Return("named")
    ELSE IF field.unnamed THEN Return("unnamed")
    ELSE Raise("ComponentLookupError")

\* adapter.prefix = prefix; adapter.get_schema()
get_schema(adapter, field, prefix) ==
    [provider |-> adapter, field |-> field.fid, prefix |-> prefix]

\* if prefix: fieldname = ".".join([prefix, fieldname])
prefixed(prefix, fieldname) ==
    IF prefix # "" THEN prefix \o "." \o fieldname ELSE fieldname

\* the loop without its exclusion test
not_excluded_ignored(fieldname, excluded_fields) == TRUE

\* if fieldname not in excluded_fields
not_excluded(fieldname, excluded_fields) == fieldname \notin excluded_fields

RECURSIVE properties_loop(_, _, _, _, _, _)
properties_loop(fields, i, properties, prefix, excluded_fields, fname) ==
    IF i > Len(fields) THEN Return(properties)
    ELSE LET field == fields[i]
             fieldname == field.name
             adapter == lookup_adapter(field)
             key == prefixed(prefix, fieldname)
         IN  IF fieldname = fname
             THEN IF adapter.status = "raised" THEN adapter
                  ELSE Return(DictSet(EmptyDict, key,
                                      get_schema(adapter.value, field, prefix)))
             ELSE IF not_excluded(fieldname, excluded_fields)
             THEN IF adapter.status = "raised" THEN adapter
                  ELSE properties_loop(fields, i + 1,
                           DictSet(properties, key,
                                   get_schema(adapter.value, field, prefix)),
                           prefix, excluded_fields, fname)
             ELSE properties_loop(fields, i + 1, properties,
                                  prefix, excluded_fields, fname)

get_jsonschema_properties(fieldsets, prefix, excluded_fields, fname) ==
    properties_loop(iter_fields(fieldsets), 1, EmptyDict,
                    prefix, excluded_fields, fname)

\* serializer.converters.IJsonCompatible on a mapping: a mapping with the
\* same keys, in the same order, each value converted
json_compatible(d) ==
    [keys |-> d.keys, vals |-> [k \in DOMAIN d.vals |-> d.vals[k]]]

\* the type definition: fti.id, fti.Title(), fti.view_methods
fti == [id |-> "Page", title |-> "Page", view_methods |-> <<"view", "summary_view">>]

\* the lookup whose except branch leaves the fieldsets of the form in place
lookup_fieldsets_kept == get_fieldsets

\* try: fti.lookupSchema() except AttributeError: fieldsets = ()
\* else: fieldsets = get_fieldsets(...)
lookup_fieldsets == IF lookupFails THEN <<>> ELSE get_fieldsets

RECURSIVE required_loop(_, _, _)
required_loop(fields, i, required) ==
    IF i > Len(fields) THEN required
    ELSE required_loop(fields, i + 1,
             IF fields[i].required THEN Append(required, fields[i].name)
             ELSE required)

RECURSIVE mode_loop(_, _, _)
mode_loop(fields, i, properties) ==
    IF i > Len(fields) THEN Return(properties)
    ELSE IF fields[i].mode # None
    THEN IF ~HasKey(properties, fields[i].name) THEN Raise("KeyError")
         ELSE mode_loop(fields, i + 1,
                  [properties EXCEPT !.vals[fields[i].name] =
                        ("mode" :> fields[i].mode) @@ @])
    ELSE mode_loop(fields, i + 1, properties)

get_jsonschema_for_fti(excluded_fields) ==
    LET fieldsets == lookup_fieldsets
        properties == get_jsonschema_properties(fieldsets, "", excluded_fields, None)
        required == required_loop(iter_fields(fieldsets), 1, <<>>)
        moded == mode_loop(iter_fields(fieldsets), 1, properties.value)
    IN  IF properties.status = "raised" THEN properties
        ELSE IF moded.status = "raised" THEN moded
        ELSE Return([type |-> "object",
                     title |-> translate(fti.title, None),
                     properties |-> json_compatible(moded.value),
                     required |-> required,
                     fieldsets |-> get_fieldset_infos(fieldsets),
                     layouts |-> Getattr(fti, "view_methods")])

NotFound == [message |-> "No entry could be found for the supplied name."]

\* the first field of the fieldset named field_name, 0 when there is none
first_named(fields, field_name) ==
    IF \E j \in 1..Len(fields) : fields[j].name = field_name
    THEN CHOOSE j \in 1..Len(fields) :
            /\ fields[j].name = field_name
            /\ \A k \in 1..(j - 1) : fields[k].name # field_name
    ELSE 0

\* properties[field_name]['default'] = getattr(field, 'default', None) ...
decorate(properties, field_name, field) ==
    [properties EXCEPT !.vals[field_name] =
        [default |-> Getattr(field, "default"),
         defaultFactory |-> Getattr(field, "defaultFactory"),
         interface |-> Str(Getattr(field, "interface")),
         max_length |-> Getattr(field, "max_length"),
         min_length |-> Getattr(field, "min_length"),
         missing_value |-> Getattr(field, "missing_value"),
         order |-> Getattr(field, "order"),
         readonly |-> Getattr(field, "readonly"),
         required |-> Getattr(field, "required")] @@ @]

RECURSIVE info_loop(_, _, _)
info_loop(fieldsets, i, field_name) ==
    IF i > Len(fieldsets) THEN Return(NotFound)
    ELSE LET fieldset == fieldsets[i]
             j == first_named(fieldset.fields, field_name)
             properties == get_jsonschema_properties(<<fieldset>>, "", {}, field_name)
         IN  IF fieldset.id = field_name
             THEN Return(get_fieldset_infos(<<fieldset>>)[1])
             ELSE IF j # 0
             THEN IF properties.status = "raised" THEN properties
                  ELSE Return(json_compatible(
                           decorate(properties.value, field_name, fieldset.fields[j])))
             ELSE info_loop(fieldsets, i + 1, field_name)

get_info_for_field(field_name) == info_loop(lookup_fieldsets, 1, field_name)

(***************************************************************************)
(* get_widget_params: the schema interfaces it is handed                   *)
(***************************************************************************)
\* two schema interfaces, ILeaf extending IBase; IBase declares field f,
\* ILeaf declares field g
SchemaIds == {"ILeaf", "IBase"}
WidgetFields == {"f", "g"}
ParamKeys == {"k"}
Thunks == {"thunk1", "thunk2"}
Literals == {"lit1", "lit2"}

\* schema.__iro__, closest first
iro(schema) == IF schema = "ILeaf" THEN <<"ILeaf", "IBase">> ELSE <<"IBase">>

\* iter(schema): the names of the schema, inherited ones included
schema_names(schema) == IF schema = "ILeaf" THEN <<"g", "f">> ELSE <<"f">>

\* callable(v) and v()
callable(v) == v \in Thunks
call_thunk(v) == IF v = "thunk1" THEN "computed1" ELSE "computed2"

NoWidget == [kind |-> "none"]
Widgets ==
    {NoWidget, [kind |-> "plain"]}
    \cup {[kind |-> "parameterized", params |-> p] :
            p \in UNION {[ks -> Thunks \cup Literals] : ks \in SUBSET ParamKeys}}

\* plone.supermodel mergedTaggedValueDict(schema, WIDGETS_KEY): the tagged
\* dicts of reversed(schema.__iro__) updated into one, so the entry of the
\* interface closest to the schema stays; origin is the declaring interface
mergedTaggedValueDict(schema) ==
    [field_name \in WidgetFields |->
        LET order == iro(schema)
            has == {i \in 1..Len(order) : tagged[order[i]][field_name].kind # "none"}
            first == CHOOSE i \in has : \A j \in has : i <= j
        IN  IF has = {} THEN NoWidget
            ELSE [origin |-> order[first]] @@ tagged[order[first]][field_name]]

\* IParameterizedWidget.providedBy(widget) and widget.params
has_params(widget) ==
    /\ widget.kind = "parameterized"
    /\ DOMAIN widget.params # {}

RECURSIVE SetToSeq(_)
SetToSeq(S) ==
    IF S = {} THEN <<>>
    ELSE LET x == CHOOSE x \in S : TRUE IN <<x>> \o SetToSeq(S \ {x})

\* for k, v in widget.params.items(): if callable(v): v = v()
resolve_params(widget) ==
    [k \in DOMAIN widget.params |->
        IF callable(widget.params[k]) THEN call_thunk(widget.params[k])
        ELSE widget.params[k]]

\* the calls v() made while resolving the params of one widget of one field
thunk_calls(widget, field_name) ==
    LET ks == SetToSeq({k \in DOMAIN widget.params : callable(widget.params[k])})
    IN  [i \in 1..Len(ks) |->
            [origin |-> widget.origin, field |-> field_name, key |-> ks[i]]]

RECURSIVE widget_fields_loop(_, _, _, _)
widget_fields_loop(names, j, tagged_values, acc) ==
    IF j > Len(names) THEN acc
    ELSE LET field_name == names[j]
             widget == tagged_values[field_name]
         IN  widget_fields_loop(names, j + 1, tagged_values,
                 IF has_params(widget)
                 THEN [params |-> (field_name :> resolve_params(widget)) @@ acc.params,
                       evaluated |-> acc.evaluated \o thunk_calls(widget, field_name)]
                 ELSE acc)

RECURSIVE widget_schemas_loop(_, _, _)
widget_schemas_loop(schs, i, acc) ==
    IF i > Len(schs) THEN acc
    ELSE IF schs[i] = None THEN widget_schemas_loop(schs, i + 1, acc)
    ELSE widget_schemas_loop(schs, i + 1,
             widget_fields_loop(schema_names(schs[i]), 1,
                                mergedTaggedValueDict(schs[i]), acc))

\* the returned params and, beside them, the thunk calls made on the way
get_widget_params(schs) ==
    widget_schemas_loop(schs, 1, [params |-> <<>>, evaluated |-> <<>>])

(***************************************************************************)
(* Specification                                                          *)
(***************************************************************************)
NoCall == [op |-> "none"]

\* plone.autoform merges the fieldsets of one name into one group, so the
\* groups of a form have distinct names
GroupIdSeqs ==
    {ids \in SeqsUpTo(GroupIds, MaxGroups) :
        \A i \in DOMAIN ids : \A j \in DOMAIN ids : i # j => ids[i] # ids[j]}

InitForm(reqs, modes, nameds, unnameds) ==
    \E flat \in SeqsUpTo(FieldAttrs(reqs, modes, nameds, unnameds), MaxFields) :
    \E ids \in GroupIdSeqs :
    \E c \in Cuts(Len(flat), Len(ids)) :
        /\ form_fields = DefaultOf(WithIds(flat), ids, c)
        /\ form_groups = GroupsOf(WithIds(flat), ids, c)

NoTagged == [s \in SchemaIds |-> [f \in WidgetFields |-> NoWidget]]

\* the form of a type whose fields differ in the adapters registered for them
Init ==
    /\ InitForm({FALSE}, {None}, BOOLEAN, BOOLEAN)
    /\ lookupFails = FALSE
    /\ schemas = <<>>
    /\ tagged = NoTagged
    /\ call = NoCall

GetJsonschemaProperties ==
    \E prefix \in Prefixes, excluded_fields \in SUBSET FieldNames,
       fname \in FieldNames \cup {None} :
        /\ call = NoCall
        /\ call' = [op |-> "get_jsonschema_properties",
                    fieldsets |-> get_fieldsets,
                    prefix |-> prefix,
                    excluded_fields |-> excluded_fields,
                    fname |-> fname,
                    result |-> get_jsonschema_properties(
                                   get_fieldsets, prefix, excluded_fields, fname)]
        /\ UNCHANGED <<lookupFails, form_fields, form_groups, schemas, tagged>>

GetJsonschemaForFti ==
    \E excluded_fields \in SUBSET FieldNames :
        /\ call = NoCall
        /\ call' = [op |-> "get_jsonschema_for_fti",
                    fieldsets |-> lookup_fieldsets,
                    excluded_fields |-> excluded_fields,
                    result |-> get_jsonschema_for_fti(excluded_fields)]
        /\ UNCHANGED <<lookupFails, form_fields, form_groups, schemas, tagged>>

GetInfoForField ==
    \E field_name \in FieldNames \cup GroupIds \cup {"default"} :
        /\ call = NoCall
        /\ call' = [op |-> "get_info_for_field",
                    fieldsets |-> lookup_fieldsets,
                    field_name |-> field_name,
                    result |-> get_info_for_field(field_name)]
        /\ UNCHANGED <<lookupFails, form_fields, form_groups, schemas, tagged>>

Next ==
    \/ GetJsonschemaProperties
    \/ GetJsonschemaForFti
    \/ GetInfoForField

Spec == Init /\ [][Next]_vars

\* the form of a type whose fields differ in required flag and mode, every
\* field type having its unnamed adapter; the schema lookup may fail
InitFti ==
    /\ InitForm(BOOLEAN, Modes \cup {None}, {FALSE}, {TRUE})
    /\ lookupFails \in BOOLEAN
    /\ schemas = <<>>
    /\ tagged = NoTagged
    /\ call = NoCall

NextFti ==
    \/ GetJsonschemaForFti
    \/ GetInfoForField

SpecFti == InitFti /\ [][NextFti]_vars

\* schema interfaces with any widget tagged values, any sequence of them
InitWidgets ==
    /\ form_fields = <<>>
    /\ form_groups = <<>>
    /\ lookupFails = FALSE
    /\ schemas \in SeqsUpTo(SchemaIds \cup {None}, MaxSchemas)
    /\ tagged \in [SchemaIds -> [WidgetFields -> Widgets]]
    /\ call = NoCall

GetWidgetParams ==
    /\ call = NoCall
    /\ call' = [op |-> "get_widget_params",
                schemas |-> schemas,
                result |-> get_widget_params(schemas).params,
                evaluated |-> get_widget_params(schemas).evaluated]
    /\ UNCHANGED <<lookupFails, form_fields, form_groups, schemas, tagged>>

NextWidgets == GetWidgetParams

SpecWidgets == InitWidgets /\ [][NextWidgets]_vars

(***************************************************************************)
(* Properties                                                              *)
(***************************************************************************)
IsCall(op) == call.op = op
Returned == call.result.status = "ok"
CallFields == iter_fields(call.fieldsets)
Min(S) == CHOOSE x \in S : \A y \in S : x <= y
NoDuplicates(s) == \A i \in DOMAIN s : \A j \in DOMAIN s : i # j => s[i] # s[j]

RECURSIVE FirstOccurrences(_)
FirstOccurrences(s) ==
    IF s = <<>> THEN <<>>
    ELSE LET front == SubSeqOrEmpty(s, 1, Len(s) - 1)
             last == s[Len(s)]
         IN  IF \E i \in DOMAIN front : front[i] = last
             THEN FirstOccurrences(front)
             ELSE Append(FirstOccurrences(front), last)

\* C1: get_jsonschema_properties called with fname = F returns a mapping
\* whose only key is F when some fieldset has a field named F, and an empty
\* mapping when no fieldset has a field named F.
C1_SingleFieldShortCircuit ==
    (IsCall("get_jsonschema_properties") /\ call.fname # None /\ Returned) =>
        call.result.value.keys =
            IF \E i \in DOMAIN CallFields : CallFields[i].name = call.fname
            THEN <<prefixed(call.prefix, call.fname)>>
            ELSE <<>>

\* C2 as stated: whatever prefix and fname are, the mapping returned by
\* get_jsonschema_properties has no key for a field in excluded_fields.
C2_ExclusionWhateverFname ==
    (IsCall("get_jsonschema_properties") /\ Returned) =>
        \A e \in call.excluded_fields :
            ~HasKey(call.result.value, prefixed(call.prefix, e))

\* C2 amended: the mapping returned by get_jsonschema_properties has no key
\* for a field in excluded_fields other than the field asked for by fname.
C2_Exclusion ==
    (IsCall("get_jsonschema_properties") /\ Returned) =>
        \A e \in call.excluded_fields \ {call.fname} :
            ~HasKey(call.result.value, prefixed(call.prefix, e))

\* an excluded field and a field that is not excluded are in the fieldsets,
\* and the call returned the property of the one that is not excluded
C2_Witness ==
    /\ IsCall("get_jsonschema_properties") /\ Returned
    /\ \E i \in DOMAIN CallFields : CallFields[i].name \in call.excluded_fields
    /\ call.result.value.keys # <<>>
    /\ call.prefix # ""
    /\ \A k \in DOMAIN call.result.value.vals :
           \A e \in call.excluded_fields : k # prefixed(call.prefix, e)

\* C6: without fname, the keys of the mapping returned by
\* get_jsonschema_properties are the names of the fields that are not
\* excluded, in fieldset order then field order, each once, and the value of
\* a key is the schema of the first field seen with that name.
C6_OrderAndFirstSeen ==
    (IsCall("get_jsonschema_properties") /\ call.fname = None /\ Returned) =>
        LET kept == {i \in DOMAIN CallFields :
                        CallFields[i].name \notin call.excluded_fields}
            keyOf(i) == prefixed(call.prefix, CallFields[i].name)
            keptKeys == [i \in 1..Len(CallFields) |->
                            IF i \in kept THEN keyOf(i) ELSE None]
            expected == SelectSeq(FirstOccurrences(keptKeys), LAMBDA k : k # None)
        IN  /\ call.result.value.keys = expected
            /\ NoDuplicates(call.result.value.keys)
            /\ \A k \in DOMAIN call.result.value.vals :
                   call.result.value.vals[k].field =
                       Min({i \in kept : keyOf(i) = k})

\* C8: the schema stored for a processed field comes from the adapter named
\* after the field when one is registered and from the unnamed adapter only
\* when none is; when a processed field has neither, the lookup error
\* propagates and neither a mapping nor a document is returned.
C8_AdapterDispatch ==
    /\ IsCall("get_jsonschema_properties") =>
        LET hits == {i \in DOMAIN CallFields : CallFields[i].name = call.fname}
            stop == IF hits = {} THEN Len(CallFields) ELSE Min(hits)
            processed == {i \in 1..stop :
                            \/ CallFields[i].name = call.fname
                            \/ CallFields[i].name \notin call.excluded_fields}
            orphan(i) == ~CallFields[i].named /\ ~CallFields[i].unnamed
        IN  /\ (\E i \in processed : orphan(i)) <=>
                    call.result = Raise("ComponentLookupError")
            /\ Returned =>
                \A k \in DOMAIN call.result.value.vals :
                    LET schema == call.result.value.vals[k]
                        field == CallFields[schema.field]
                    IN  /\ schema.field \in processed
                        /\ schema.provider = "named" <=> field.named
                        /\ schema.provider = "unnamed" <=>
                               (~field.named /\ field.unnamed)
    /\ IsCall("get_jsonschema_for_fti") =>
        ((\E i \in DOMAIN CallFields :
              /\ CallFields[i].name \notin call.excluded_fields
              /\ ~CallFields[i].named /\ ~CallFields[i].unnamed)
         <=> call.result = Raise("ComponentLookupError"))

\* a field with both adapters got the schema of the named one, and a field
\* with only the unnamed adapter got the schema of the unnamed one
C8_Witness ==
    /\ IsCall("get_jsonschema_properties") /\ Returned
    /\ \E k \in DOMAIN call.result.value.vals :
          /\ call.result.value.vals[k].provider = "named"
          /\ CallFields[call.result.value.vals[k].field].unnamed
    /\ \E k \in DOMAIN call.result.value.vals :
          call.result.value.vals[k].provider = "unnamed"

\* C3: the "required" list of the document returned by
\* get_jsonschema_for_fti holds exactly the names of the fields whose
\* required flag is true, each name at most once.
C3_RequiredComplete ==
    (IsCall("get_jsonschema_for_fti") /\ Returned) =>
        LET required == call.result.value.required
        IN  /\ {required[i] : i \in DOMAIN required} =
                   {CallFields[i].name : i \in {j \in DOMAIN CallFields :
                                                    CallFields[j].required}}
            /\ NoDuplicates(required)

\* C4: when lookupSchema fails, get_jsonschema_for_fti raises nothing and
\* returns empty properties, required and fieldsets with the type's title
\* and layouts, whatever excluded_fields is, and get_info_for_field returns
\* the not-found marker for every name.
C4_SchemaLessFallback ==
    lookupFails =>
        /\ IsCall("get_jsonschema_for_fti") =>
              /\ Returned
              /\ call.result.value.properties = EmptyDict
              /\ call.result.value.required = <<>>
              /\ call.result.value.fieldsets = <<>>
              /\ call.result.value.title = fti.title
              /\ call.result.value.layouts = fti.view_methods
              /\ call.result.value.type = "object"
        /\ IsCall("get_info_for_field") => call.result = Return(NotFound)

\* the lookup failed on a type whose form would have had fields, and a
\* document was asked for with a field excluded
C4_Witness ==
    /\ lookupFails
    /\ form_fields # <<>>
    /\ IsCall("get_jsonschema_for_fti")
    /\ call.excluded_fields # {}
    /\ Returned

DecorationKeys ==
    {"default", "defaultFactory", "interface", "max_length", "min_length",
     "missing_value", "order", "readonly", "required"}

\* C5: get_info_for_field returns the summary of the fieldset whose id is N
\* whenever N is a fieldset id; otherwise, when a field is named N, that
\* field's decorated property; and the not-found marker, as a normal return
\* value, exactly when N is neither.
C5_DetailQuery ==
    IsCall("get_info_for_field") =>
        LET N == call.field_name
            idMatch == {i \in DOMAIN call.fieldsets : call.fieldsets[i].id = N}
            fieldMatch == {i \in DOMAIN CallFields : CallFields[i].name = N}
        IN  /\ Returned
            /\ idMatch # {} =>
                  call.result.value = get_fieldset_infos(call.fieldsets)[Min(idMatch)]
            /\ (idMatch = {} /\ fieldMatch # {}) =>
                  /\ DOMAIN call.result.value = {"keys", "vals"}
                  /\ call.result.value.keys = <<N>>
                  /\ DecorationKeys \subseteq DOMAIN call.result.value.vals[N]
                  /\ call.result.value.vals[N].field = Min(fieldMatch)
                  /\ call.result.value.vals[N].required = CallFields[Min(fieldMatch)].required
            /\ (call.result.value = NotFound) <=> (idMatch = {} /\ fieldMatch = {})

\* C7: in the document returned by get_jsonschema_for_fti the property of
\* every field with a mode carries that mode under "mode", and the property
\* of a field without a mode has no "mode" key.
C7_FieldMode ==
    (IsCall("get_jsonschema_for_fti") /\ Returned) =>
        \A i \in DOMAIN CallFields :
            LET field == CallFields[i]
                properties == call.result.value.properties
            IN  HasKey(properties, field.name) =>
                    IF field.mode # None
                    THEN /\ "mode" \in DOMAIN properties.vals[field.name]
                         /\ properties.vals[field.name].mode = field.mode
                    ELSE "mode" \notin DOMAIN properties.vals[field.name]

\* C10: when the schema lookup succeeds and every field has an adapter,
\* get_jsonschema_for_fti returns a document without raising, whatever
\* excluded_fields is, also when an excluded field has a mode.
C10_NoRaiseOnExcludedMode ==
    (IsCall("get_jsonschema_for_fti") /\ ~lookupFails
        /\ \A i \in DOMAIN CallFields : CallFields[i].named \/ CallFields[i].unnamed)
    => Returned

\* the declarations of deferred values that get_widget_params meets: a
\* schema of the sequence, a field of it, a key of the widget merged for it
DeferredSites ==
    {site \in [origin : SchemaIds, field : WidgetFields, key : ParamKeys] :
        \E i \in DOMAIN call.schemas :
            /\ call.schemas[i] # None
            /\ \E j \in DOMAIN schema_names(call.schemas[i]) :
                  /\ schema_names(call.schemas[i])[j] = site.field
                  /\ LET widget == mergedTaggedValueDict(call.schemas[i])[site.field]
                     IN  /\ has_params(widget)
                         /\ widget.origin = site.origin
                         /\ site.key \in DOMAIN widget.params
                         /\ callable(widget.params[site.key])}

\* the schemas of the sequence that declare parameters for the field
Declaring(field_name) ==
    {s \in SchemaIds :
        /\ \E i \in DOMAIN call.schemas : call.schemas[i] = s
        /\ \E j \in DOMAIN schema_names(s) : schema_names(s)[j] = field_name
        /\ has_params(tagged[s][field_name])}

\* C9: get_widget_params returns no unevaluated callable, evaluates every
\* deferred value declared on the schemas exactly once per call, and when
\* several schemas declare parameters for a field, the declaration closest
\* to the leaf schema wins.
C9_WidgetParams ==
    IsCall("get_widget_params") =>
        /\ \A f \in DOMAIN call.result : \A k \in DOMAIN call.result[f] :
               ~callable(call.result[f][k])
        /\ \A site \in DeferredSites :
               Cardinality({i \in DOMAIN call.evaluated : call.evaluated[i] = site}) = 1
        /\ \A f \in WidgetFields :
               Declaring(f) # {} =>
                   LET leaf == IF "ILeaf" \in Declaring(f) THEN "ILeaf" ELSE "IBase"
                   IN  /\ f \in DOMAIN call.result
                       /\ call.result[f] = resolve_params(tagged[leaf][f])
====
